---------------------------- MODULE Spec2Model ----------------------------
(***************************************************************************)
(* SpTRSV node-split toolchain: GraphRewriter (graph_splitter.py, and the  *)
(* long-tail variant of generate_longtail_data.py),                        *)
(* MECCompilerResource (mec_compiler_resource.py) and HeteroScheduler      *)
(* (scheduler_hetero.py), run as one pipeline on a raw DAG:                *)
(*   raw DAG -> rewritten DAG -> MEC map -> LC/PC schedule.                *)
(* Node ids are the strings the rewriter emits ("3", "P_3_0").             *)
(***************************************************************************)
EXTENDS Integers, Sequences, FiniteSets, TLC

VARIABLES
    \* pipeline inputs
    raw_dag,            \* the raw DAG file: a list of [id, parents, level]
    threshold,          \* GraphRewriter.threshold
    chunk_size,         \* GraphRewriter.chunk_size
    split_factor,       \* GraphRewriter.split_factor of the long-tail variant
    pe_limit,           \* HeteroScheduler.pe_limit
    nfu_limit,          \* HeteroScheduler.nfu_limit
    omit_mec,           \* ids whose entry is missing from the MEC map file
    first_run,          \* observer: << >>, or the one result of an earlier run of
                        \* the scheduler on the same DAG and MEC map
    \* control
    ctl,                \* position in the pipeline / in HeteroScheduler.run
    \* rewriter output
    dag_data,           \* the rewritten DAG: a list of [id, type, parents, level, cost]
    \* MECCompilerResource
    sorted_nodes,       \* ids in the order run() processes them
    ci,                 \* index of the next node of sorted_nodes
    nodes_mec,          \* nodes[nid]['mec']
    nfu_next_free_time, \* the NFU scoreboard
    max_mec,
    mec_map,            \* the exported {str(nid): mec}
    \* HeteroScheduler
    node_remaining_dependency_count,
    fusion_remaining_parents,
    current_lc,
    pc,
    finished_nodes,
    nodes_finished_last_lc,
    nodes_finished_this_lc,
    optional_edge_queue,
    mandatory_queue,
    pe_events,
    nfu_events,
    free_pes,
    nfu_busy_timer,
    locked_targets,
    dispatched_log,
    qi,                 \* position of the `for task in queue` loop under way
    next_queue,         \* next_mandatory / next_optional of that loop
    trace_log,          \* one [pc, lc, ops] per PC that issued something
    total_cycles,       \* stats['total_cycles']
    starved             \* observer: some PC ended with all PEs idle and the
                        \* mandatory queue non-empty

vars == << raw_dag, threshold, chunk_size, split_factor, pe_limit, nfu_limit,
           omit_mec,
           first_run, ctl, dag_data,
           sorted_nodes, ci, nodes_mec, nfu_next_free_time, max_mec, mec_map,
           node_remaining_dependency_count, fusion_remaining_parents,
           current_lc, pc, finished_nodes, nodes_finished_last_lc,
           nodes_finished_this_lc, optional_edge_queue, mandatory_queue,
           pe_events, nfu_events, free_pes, nfu_busy_timer, locked_targets,
           dispatched_log, qi, next_queue, trace_log, total_cycles, starved >>

inputVars == << raw_dag, threshold, chunk_size, split_factor, pe_limit, nfu_limit,
           omit_mec,
               first_run >>
compilerVars == << sorted_nodes, ci, nodes_mec, nfu_next_free_time, max_mec >>
countVars == << node_remaining_dependency_count, fusion_remaining_parents >>
clockVars == << current_lc, pc >>
queueVars == << optional_edge_queue, mandatory_queue >>
eventVars == << pe_events, nfu_events, free_pes, nfu_busy_timer >>
issueVars == << locked_targets, dispatched_log, qi, next_queue >>
logVars == << trace_log, total_cycles, starved >>

----------------------------------------------------------------------------
(* Bounds of the generated inputs *)

Dim == 4
MaxThreshold == 2
MaxPE == 2
MaxChunk == 3
MaxNfu == 2

(* Program constants *)

DefaultThreshold == 5
DefaultChunkSize == 5
LongtailThreshold == 20
DefaultPeLimit == 10
DefaultNfuLimit == 1
DefaultSplitFactor == 4
MissingMec == 99999
max_lc_limit == 5000
UrgentSlack == -999

----------------------------------------------------------------------------
(* Generic helpers *)

Max2(a, b) == IF a >= b THEN a ELSE b

Range(s) == { s[i] : i \in 1..Len(s) }

\* the element of a one-element set. A value reaches a loop below as
\* TheOnly({ Loop(v) : v \in {e} }), with e evaluated once and bound to v.
TheOnly(S) == CHOOSE r \in S : TRUE

\* max(list) of a non-empty list
SeqMax(s) == CHOOSE m \in Range(s) : \A x \in Range(s) : x <= m

\* list.sort / sorted with a key: stable. Items are [k1, k2, v], ordered by
\* the key (k1, k2); equal keys keep their order.
KeyLt(a, b) == a.k1 < b.k1 \/ (a.k1 = b.k1 /\ a.k2 < b.k2)

RECURSIVE StableInsert(_, _)
StableInsert(x, s) ==
    IF s = << >> THEN << x >>
    ELSE IF KeyLt(x, s[1]) THEN << x >> \o s
    ELSE << s[1] >> \o StableInsert(x, Tail(s))

\* the first n items of s, sorted
RECURSIVE SortPrefix(_, _)
SortPrefix(s, n) ==
    IF n = 0 THEN << >>
    ELSE TheOnly({ StableInsert(s[n], sorted) : sorted \in { SortPrefix(s, n - 1) } })

StableSortKeyed(s) == TheOnly({ SortPrefix(v, Len(v)) : v \in {s} })

Unkeyed(s) == [ k \in 1..Len(s) |-> s[k].v ]

\* mutant: the arrivals are taken in list order
SortSkipped(s) == s

\* Python's sorted(list of ints): ascending
SortAsc(s) ==
    Unkeyed(StableSortKeyed([ k \in 1..Len(s) |-> [ k1 |-> s[k], k2 |-> 0, v |-> s[k] ] ]))

\* str(x) of an integer id
Str(i) == ToString(i)

\* [str(p) for p in s]
StrAll(s) == [ k \in 1..Len(s) |-> Str(s[k]) ]

----------------------------------------------------------------------------
(* Raw DAGs, as SyntheticDAGGenerator writes them: node i depends on a   *)
(* subset of the nodes before it, level = 1 + the highest parent level.  *)

\* the elements of a set of integers in ascending order
AscSeq(S) ==
    [ k \in 1..Cardinality(S) |->
        CHOOSE x \in S : Cardinality({ y \in S : y < x }) = k - 1 ]

RawLevel(d, ps) ==
    IF ps = {} THEN 0
    ELSE 1 + SeqMax([ k \in 1..Len(AscSeq(ps)) |-> d[AscSeq(ps)[k] + 1].level ])

RawNode(d, i, ps) == [ id |-> i, parents |-> AscSeq(ps), level |-> RawLevel(d, ps) ]

RECURSIVE GeneratedDags(_)
GeneratedDags(n) ==
    IF n = 0 THEN { << >> }
    ELSE { Append(d, RawNode(d, n - 1, ps)) :
             d \in GeneratedDags(n - 1), ps \in SUBSET (0..(n - 2)) }

----------------------------------------------------------------------------
(* GraphRewriter.process_file *)

PartialId(nid, k) == "P_" \o Str(nid) \o "_" \o Str(k)

NormalNode(node) ==
    [ id |-> Str(node.id), type |-> "NORMAL", parents |-> StrAll(node.parents),
      level |-> node.level, cost |-> Len(node.parents) + 1 ]

\* parents[i : i + chunk_size] with i counted from 0
ChunkParents(parents, i, chunk) ==
    SubSeq(parents, i + 1, IF i + chunk < Len(parents) THEN i + chunk ELSE Len(parents))

PartialNode(node, i, chunk_idx, chunk) ==
    [ id |-> PartialId(node.id, chunk_idx), type |-> "PARTIAL",
      parents |-> StrAll(ChunkParents(node.parents, i, chunk)),
      level |-> node.level, cost |-> Len(ChunkParents(node.parents, i, chunk)) ]

\* the loop `for i in range(0, num_parents, chunk_size)`, from position i on
RECURSIVE PartialNodes(_, _, _, _)
PartialNodes(node, i, chunk_idx, chunk) ==
    IF i >= Len(node.parents) THEN << >>
    ELSE << PartialNode(node, i, chunk_idx, chunk) >>
         \o PartialNodes(node, i + chunk, chunk_idx + 1, chunk)

\* mutant: the Fusion node is put two levels above the node it replaces
FusionTwoLevelsUp(level) == level + 2

\* mutant: the Fusion node stays at the level of the node it replaces
FusionSameLevel(level) == level

FusionLevel(level) == level + 1

FusionNode(node, partials) ==
    [ id |-> Str(node.id), type |-> "FUSION",
      parents |-> [ k \in 1..Len(partials) |-> partials[k].id ],
      level |-> FusionLevel(node.level), cost |-> 2 ]

\* mutant: a node with exactly `threshold` parents is split as well
SplitAtThreshold(node, thr) == ~(Len(node.parents) < thr)

NeedsSplit(node, thr) == ~(Len(node.parents) <= thr)

RewriteNode(node, thr, chunk) ==
    IF ~NeedsSplit(node, thr) THEN << NormalNode(node) >>
    ELSE LET partials == PartialNodes(node, 0, 0, chunk)
         IN  partials \o << FusionNode(node, partials) >>

RECURSIVE Rewrite(_, _, _)
Rewrite(raw, thr, chunk) ==
    IF raw = << >> THEN << >>
    ELSE RewriteNode(raw[1], thr, chunk) \o Rewrite(Tail(raw), thr, chunk)


----------------------------------------------------------------------------
(* GraphRewriter.process_file of generate_longtail_data.py: a node over the *)
(* threshold is cut into at most split_factor chunks of equal size          *)

\* math.ceil(num_parents / self.split_factor)
LongtailChunk(num_parents, sf) == (num_parents + sf - 1) \div sf

\* the loop `for k in range(self.split_factor)`, from k on: the chunk
\* parents[k * chunk : min((k + 1) * chunk, num_parents)], skipped when empty
RECURSIVE LongtailPartials(_, _, _, _)
LongtailPartials(node, k, chunk, sf) ==
    IF k >= sf THEN << >>
    ELSE (IF k * chunk >= Len(node.parents) THEN << >>
          ELSE << PartialNode(node, k * chunk, k, chunk) >>)
         \o LongtailPartials(node, k + 1, chunk, sf)

RewriteLongtailNode(node, thr, sf) ==
    IF ~NeedsSplit(node, thr) THEN << NormalNode(node) >>
    ELSE LET partials == LongtailPartials(node, 0, LongtailChunk(Len(node.parents), sf), sf)
         IN  partials \o << FusionNode(node, partials) >>

RECURSIVE RewriteLongtail(_, _, _)
RewriteLongtail(raw, thr, sf) ==
    IF raw = << >> THEN << >>
    ELSE RewriteLongtailNode(raw[1], thr, sf) \o RewriteLongtail(Tail(raw), thr, sf)

----------------------------------------------------------------------------
(* Views of a rewritten DAG *)

IdsOf(dag) == [ k \in 1..Len(dag) |-> dag[k].id ]

\* a dict built by `for item in dag: d[item['id']] = ...` keeps the last item of an id
ItemOf(dag, nid) ==
    dag[CHOOSE k \in 1..Len(dag) :
            dag[k].id = nid /\ \A j \in (k + 1)..Len(dag) : dag[j].id # nid]

----------------------------------------------------------------------------
(* MECCompilerResource *)

\* sorted(self.nodes.values(), key=lambda x: x['level'])
SortByLevel(dag) ==
    Unkeyed(StableSortKeyed([ k \in 1..Len(dag) |->
                [ k1 |-> ItemOf(dag, dag[k].id).level, k2 |-> 0, v |-> dag[k].id ] ]))

\* _get_parent_mecs: a parent that is not a node counts as MEC 0
ParentMecs(node) ==
    [ k \in 1..Len(node.parents) |->
        IF node.parents[k] \in DOMAIN nodes_mec THEN nodes_mec[node.parents[k]] ELSE 0 ]

\* the serial accumulation loop over the sorted arrivals, from current_time on
\* one edge: it starts at max(t_arrival, current_time) and takes one cycle
EdgeFinishTime(t_arrival, current_time) == Max2(t_arrival, current_time) + 1

RECURSIVE Accumulate(_, _)
Accumulate(arrivals, current_time) ==
    IF arrivals = << >> THEN current_time
    ELSE TheOnly({ Accumulate(Tail(arrivals), finish_time) :
                     finish_time \in { EdgeFinishTime(arrivals[1], current_time) } })

\* mutant: a Partial node also pays the update cycle
CalcPeNodeWithUpdate(node) ==
    IF ParentMecs(node) = << >> THEN 1
    ELSE Accumulate(SortAsc(ParentMecs(node)), 0) + 1

CalcPeNode(node) ==
    LET parent_mecs == ParentMecs(node)
    IN  IF parent_mecs = << >> THEN 1
        ELSE LET current_time == Accumulate(SortAsc(parent_mecs), 0)
             IN  IF node.type = "NORMAL" THEN current_time + 1 ELSE current_time

DataReadyTime(node) ==
    IF ParentMecs(node) = << >> THEN 0 ELSE SeqMax(ParentMecs(node))

StartExecTime(node) == Max2(DataReadyTime(node), nfu_next_free_time)

\* mutant: the scoreboard does not reserve the execute cycle
NfuReleaseAtStart(start_exec_time) == start_exec_time

NfuReleaseTime(start_exec_time) == start_exec_time + 1

FusionMec(start_exec_time) == start_exec_time + 2

CompilerStart ==
    /\ ctl = "compile"
    /\ sorted_nodes' = SortByLevel(dag_data)
    /\ nodes_mec' = [ nid \in Range(IdsOf(dag_data)) |-> 0 ]
    /\ ci' = 1
    /\ nfu_next_free_time' = 0
    /\ max_mec' = 0
    /\ ctl' = "mec"
    /\ UNCHANGED << inputVars, dag_data, mec_map, countVars, clockVars,
                    finished_nodes, nodes_finished_last_lc, nodes_finished_this_lc,
                    queueVars, eventVars, issueVars, logVars >>

\* one iteration of `for node in sorted_nodes`
CompileNode ==
    /\ ctl = "mec"
    /\ ci <= Len(sorted_nodes)
    /\ LET node == ItemOf(dag_data, sorted_nodes[ci])
           mec  == IF node.type = "FUSION"
                   THEN FusionMec(StartExecTime(node))
                   ELSE CalcPeNode(node)
       IN  /\ nodes_mec' = [ nodes_mec EXCEPT ![node.id] = mec ]
           /\ nfu_next_free_time' =
                 IF node.type = "FUSION" THEN NfuReleaseTime(StartExecTime(node))
                 ELSE nfu_next_free_time
           /\ max_mec' = IF mec > max_mec THEN mec ELSE max_mec
    /\ ci' = ci + 1
    /\ UNCHANGED << inputVars, ctl, dag_data, sorted_nodes, mec_map, countVars,
                    clockVars, finished_nodes, nodes_finished_last_lc,
                    nodes_finished_this_lc, queueVars, eventVars, issueVars, logVars >>

\* batch_run_mec_resource writes {str(nid): mec}; omit_mec are the entries the
\* file the scheduler reads lacks
ExportMec ==
    /\ ctl = "mec"
    /\ ci > Len(sorted_nodes)
    /\ mec_map' = [ nid \in (DOMAIN nodes_mec) \ omit_mec |-> nodes_mec[nid] ]
    /\ ctl' = "init"
    /\ UNCHANGED << inputVars, dag_data, compilerVars, countVars, clockVars,
                    finished_nodes, nodes_finished_last_lc, nodes_finished_this_lc,
                    queueVars, eventVars, issueVars, logVars >>

----------------------------------------------------------------------------
(* HeteroScheduler: the graph built by _build_graph *)

MecOf(nid) == IF nid \in DOMAIN mec_map THEN mec_map[nid] ELSE MissingMec

node_info(nid) ==
    [ type |-> ItemOf(dag_data, nid).type, mec |-> MecOf(nid),
      parents |-> ItemOf(dag_data, nid).parents ]

Occurrences(x, s) == Cardinality({ j \in 1..Len(s) : s[j] = x })

\* adj_list[p]: one entry per occurrence of p in a parent list, in DAG order
RECURSIVE AdjFrom(_, _)
AdjFrom(p, k) ==
    IF k > Len(dag_data) THEN << >>
    ELSE [ j \in 1..Occurrences(p, dag_data[k].parents) |-> dag_data[k].id ]
         \o AdjFrom(p, k + 1)

adj_list(p) == AdjFrom(p, 1)

NodeIds == Range(IdsOf(dag_data))

PeNodeIds == { nid \in NodeIds : ItemOf(dag_data, nid).type # "FUSION" }

FusionIds == { nid \in NodeIds : ItemOf(dag_data, nid).type = "FUSION" }

\* dict.get(nid, 0)
GetOr0(f, nid) == IF nid \in DOMAIN f THEN f[nid] ELSE 0

SchedulerInit ==
    /\ ctl = "init"
    /\ node_remaining_dependency_count' =
          [ nid \in PeNodeIds |-> Len(ItemOf(dag_data, nid).parents) ]
    /\ fusion_remaining_parents' =
          [ nid \in FusionIds |-> Len(ItemOf(dag_data, nid).parents) ]
    /\ current_lc' = 0
    /\ pc' = 0
    /\ finished_nodes' = {}
    /\ nodes_finished_last_lc' = << >>
    /\ nodes_finished_this_lc' = << >>
    /\ optional_edge_queue' = << >>
    /\ mandatory_queue' = << >>
    /\ pe_events' = << >>
    /\ nfu_events' = << >>
    /\ free_pes' = pe_limit
    /\ nfu_busy_timer' = 0
    /\ trace_log' = << >>
    /\ total_cycles' = 0
    /\ ctl' = "lc"
    /\ UNCHANGED << inputVars, dag_data, compilerVars, mec_map, issueVars, starved >>

----------------------------------------------------------------------------
(* HeteroScheduler.run: the LC boundary *)

LoopRunning == Cardinality(finished_nodes) < Len(dag_data)

\* mutant: the cap is compared with the node count
CapAtNodeCount == current_lc > Len(dag_data)

CapReached == current_lc > max_lc_limit

EdgeTask(src_id, child_id) ==
    [ type |-> "EDGE", src |-> src_id, id |-> child_id,
      mec |-> node_info(child_id).mec, slack |-> 0 ]

RECURSIVE EdgeTasks(_, _)
EdgeTasks(src_id, children) ==
    IF children = << >> THEN << >>
    ELSE (IF node_info(children[1]).type = "FUSION" THEN << >>
          ELSE << EdgeTask(src_id, children[1]) >>)
         \o EdgeTasks(src_id, Tail(children))

\* mutant: Step A walks every finished node, not the last LC's list
ReleasedEdgesOfFinished(srcs) ==
    LET Finished(nid) == nid \in finished_nodes
        RECURSIVE All(_)
        All(ids) == IF ids = << >> THEN << >>
                    ELSE EdgeTasks(ids[1], adj_list(ids[1])) \o All(Tail(ids))
    IN  All(SelectSeq(IdsOf(dag_data), Finished))

RECURSIVE ReleasedEdges(_)
ReleasedEdges(srcs) ==
    IF srcs = << >> THEN << >>
    ELSE EdgeTasks(srcs[1], adj_list(srcs[1])) \o ReleasedEdges(Tail(srcs))

\* [Step A], with the loop test, the cap test and the LC tick before it
StepA ==
    /\ ctl = "lc"
    /\ LoopRunning
    /\ ~CapReached
    /\ current_lc' = current_lc + 1
    /\ nodes_finished_this_lc' = << >>
    /\ optional_edge_queue' = optional_edge_queue \o ReleasedEdges(nodes_finished_last_lc)
    /\ nodes_finished_last_lc' = << >>
    /\ ctl' = "stepB"
    /\ UNCHANGED << inputVars, dag_data, compilerVars, mec_map, countVars, pc,
                    finished_nodes, mandatory_queue, eventVars, issueVars, logVars >>

Finish ==
    /\ ctl = "lc"
    /\ ~LoopRunning
    /\ ctl' = "done"
    /\ UNCHANGED << inputVars, dag_data, compilerVars, mec_map, countVars, clockVars,
                    finished_nodes, nodes_finished_last_lc, nodes_finished_this_lc,
                    queueVars, eventVars, issueVars, logVars >>

Timeout ==
    /\ ctl = "lc"
    /\ LoopRunning
    /\ CapReached
    /\ ctl' = "timeout"
    /\ UNCHANGED << inputVars, dag_data, compilerVars, mec_map, countVars, clockVars,
                    finished_nodes, nodes_finished_last_lc, nodes_finished_this_lc,
                    queueVars, eventVars, issueVars, logVars >>

\* mutant: the deadline is not consulted
DeadlineAlways(nid) == TRUE

DeadlineReached(nid) == node_info(nid).mec <= current_lc

IsReady(nid) ==
    IF node_info(nid).type = "FUSION" THEN GetOr0(fusion_remaining_parents, nid) = 0
    ELSE IF node_info(nid).type = "NORMAL"
         THEN GetOr0(node_remaining_dependency_count, nid) = 0
         ELSE FALSE

InQ(nid, queue) ==
    \E k \in 1..Len(queue) : queue[k].id = nid /\ queue[k].type \in {"UPDATE", "FUSION"}

\* mutant: the events in flight are not searched
NeverInRun(nid) == FALSE

\* mutant: only pe_events is searched for a completion op in flight
InRunPeOnly(nid) ==
    \E e \in Range(pe_events) :
        e.target_id = nid /\ e.type \in {"UPDATE", "FUSION"}

InRun(nid) ==
    \E e \in Range(pe_events \o nfu_events) :
        e.target_id = nid /\ e.type \in {"UPDATE", "FUSION"}

CompletionTask(nid) ==
    [ type |-> IF node_info(nid).type = "FUSION" THEN "FUSION" ELSE "UPDATE",
      src |-> "", id |-> nid, mec |-> node_info(nid).mec, slack |-> UrgentSlack ]

\* the scan `for nid, info in self.node_info.items()` over ids, appending to queue
\* the body of the scan for one node: the queue with its task appended, or as it was
DeadlineCheck(nid, queue) ==
    IF /\ nid \notin finished_nodes
       /\ DeadlineReached(nid)
       /\ IsReady(nid)
       /\ ~InQ(nid, queue)
       /\ ~InRun(nid)
    THEN Append(queue, CompletionTask(nid))
    ELSE queue

RECURSIVE DeadlineScan(_, _)
DeadlineScan(ids, queue) ==
    IF ids = << >> THEN queue
    ELSE TheOnly({ DeadlineScan(Tail(ids), q) : q \in { DeadlineCheck(ids[1], queue) } })

StepB ==
    /\ ctl = "stepB"
    /\ mandatory_queue' = DeadlineScan(IdsOf(dag_data), mandatory_queue)
    /\ ctl' = "stepC"
    /\ UNCHANGED << inputVars, dag_data, compilerVars, mec_map, countVars, clockVars,
                    finished_nodes, nodes_finished_last_lc, nodes_finished_this_lc,
                    optional_edge_queue, eventVars, issueVars, logVars >>

\* _calc_slack
CalcSlack(target_id) ==
    node_info(target_id).mec - current_lc
        - GetOr0(node_remaining_dependency_count, target_id)

\* the keys of tasks_by_target, in first-encounter order
TargetsInOrder(queue) ==
    LET FirstOfTarget(k) == \A j \in 1..(k - 1) : queue[j].id # queue[k].id
        firsts == AscSeq({ k \in 1..Len(queue) : FirstOfTarget(k) })
    IN  [ n \in 1..Len(firsts) |-> queue[firsts[n]].id ]

TasksOfTarget(queue, tid) ==
    LET ForTarget(t) == t.id = tid IN SelectSeq(queue, ForTarget)

Stamped(tasks, slack) == [ k \in 1..Len(tasks) |-> [ tasks[k] EXCEPT !.slack = slack ] ]

\* mutant: every task of an urgent target moves to the mandatory queue
PromotedAll(slack, tasks) == IF slack <= 0 THEN Len(tasks) ELSE 0

\* how many of a target's tasks move to the mandatory queue
Promoted(slack, tasks) == IF slack <= 0 /\ tasks # << >> THEN 1 ELSE 0

\* the loop `for tid, tasks in tasks_by_target.items()`; q is
\* [mand |-> mandatory_queue, opt |-> the rebuilt optional queue]
\* the body of the loop for one target
RegroupTarget(tid, by_target, q) ==
    LET slack == CalcSlack(tid)
        tasks == Stamped(TasksOfTarget(by_target, tid), slack)
        n     == Promoted(slack, tasks)
    IN  [ mand |-> q.mand \o SubSeq(tasks, 1, n),
          opt  |-> q.opt \o SubSeq(tasks, n + 1, Len(tasks)) ]

RECURSIVE Regroup(_, _, _)
Regroup(tids, by_target, q) ==
    IF tids = << >> THEN q
    ELSE TheOnly({ Regroup(Tail(tids), by_target, q1) :
                     q1 \in { RegroupTarget(tids[1], by_target, q) } })

StepC ==
    /\ ctl = "stepC"
    /\ LET q == Regroup(TargetsInOrder(optional_edge_queue), optional_edge_queue,
                        [ mand |-> mandatory_queue, opt |-> << >> ])
       IN  /\ mandatory_queue' = q.mand
           /\ optional_edge_queue' = q.opt
    /\ ctl' = "pc"
    /\ UNCHANGED << inputVars, dag_data, compilerVars, mec_map, countVars, clockVars,
                    finished_nodes, nodes_finished_last_lc, nodes_finished_this_lc,
                    eventVars, issueVars, logVars >>

----------------------------------------------------------------------------
(* HeteroScheduler.run: the PC loop *)

\* _mark_node_finished_physically, on st = [dep, fus, fin]
MarkFinished(st, nid) ==
    [ st EXCEPT !.fin = @ \cup {nid},
                !.fus = [ f \in DOMAIN @ |->
                            IF node_info(f).type = "FUSION"
                            THEN @[f] - Occurrences(f, adj_list(nid))
                            ELSE @[f] ] ]

\* _handle_completion
HandleCompletion(st, event) ==
    IF event.type = "EDGE"
    THEN LET st1 == [ st EXCEPT !.dep[event.target_id] = @ - 1 ]
         IN  IF /\ node_info(event.target_id).type = "PARTIAL"
                /\ st1.dep[event.target_id] = 0
             THEN MarkFinished(st1, event.target_id)
             ELSE st1
    ELSE IF event.type \in {"UPDATE", "FUSION"}
         THEN MarkFinished(st, event.target_id)
         ELSE st

IsDue(event, now) == event.finish_time <= now

\* the retire loop over a list of events at physical cycle now
RECURSIVE RetireAll(_, _, _)
RetireAll(events, now, st) ==
    IF events = << >> THEN st
    ELSE TheOnly({ RetireAll(Tail(events), now, st1) :
                     st1 \in { IF IsDue(events[1], now)
                               THEN HandleCompletion(st, events[1]) ELSE st } })

StillActive(events, now) ==
    LET NotDue(e) == ~IsDue(e, now) IN SelectSeq(events, NotDue)

\* mutant: the mandatory queue is walked as it stands
SortMandatorySkipped(queue) == queue

\* mandatory_queue.sort(key=lambda x: x['slack'])
SortMandatory(queue) ==
    Unkeyed(StableSortKeyed([ k \in 1..Len(queue) |->
                [ k1 |-> queue[k].slack, k2 |-> 0, v |-> queue[k] ] ]))

\* optional_edge_queue.sort(key=lambda x: (x['slack'], x['mec']))
SortOptional(queue) ==
    Unkeyed(StableSortKeyed([ k \in 1..Len(queue) |->
                [ k1 |-> queue[k].slack, k2 |-> queue[k].mec, v |-> queue[k] ] ]))

\* Phase 2.1 (retire) and the start of Phase 2.2 (locks, sorted mandatory queue)
Retire ==
    /\ ctl = "pc"
    /\ pc' = pc + 1
    /\ LET st0 == [ dep |-> node_remaining_dependency_count,
                    fus |-> fusion_remaining_parents, fin |-> finished_nodes ]
           st  == TheOnly({ RetireAll(nfu_events, pc + 1, st1) :
                              st1 \in { RetireAll(pe_events, pc + 1, st0) } })
       IN  /\ node_remaining_dependency_count' = st.dep
           /\ fusion_remaining_parents' = st.fus
           /\ finished_nodes' = st.fin
    /\ pe_events' = StillActive(pe_events, pc + 1)
    /\ free_pes' = pe_limit - Len(pe_events')
    /\ nfu_events' = StillActive(nfu_events, pc + 1)
    /\ nfu_busy_timer' = IF nfu_busy_timer > 0 THEN nfu_busy_timer - 1 ELSE nfu_busy_timer
    /\ dispatched_log' = << >>
    /\ locked_targets' = { e.target_id : e \in Range(pe_events') }
    /\ mandatory_queue' = SortMandatory(mandatory_queue)
    /\ next_queue' = << >>
    /\ qi' = 1
    /\ ctl' = "mandatory"
    /\ UNCHANGED << inputVars, dag_data, compilerVars, mec_map, current_lc,
                    nodes_finished_last_lc, nodes_finished_this_lc,
                    optional_edge_queue, logVars >>

(* _try_dispatch *)

\* mutant: the structural-hazard check is skipped
NeverLocked(tid) == FALSE

IsLocked(tid) == tid \in locked_targets

\* mutant: the NFU timer is not consulted
NfuAlwaysIdle == TRUE

\* mutant: the NFU takes as many ops per cycle as nfu_limit says
NfuSlotFree == nfu_busy_timer < nfu_limit

NfuIdle == nfu_busy_timer = 0

\* mutant: the free-PE count is not consulted
PeAlwaysAvailable == TRUE

PeAvailable == free_pes > 0

\* mutant: a PE op takes two physical cycles, like an NFU op
PeFinishLate == pc + 2

PeFinishTime == pc + 1

\* mutant: the NFU op completes like a PE op, one cycle after its issue
NfuFinishNextCycle == pc + 1

NfuFinishTime == pc + 2

\* the value _try_dispatch returns
Dispatchable(task) ==
    /\ ~IsLocked(task.id)
    /\ IF task.type = "FUSION" THEN NfuIdle
       ELSE IF task.type \in {"EDGE", "UPDATE"} THEN PeAvailable
       ELSE FALSE

\* the entry of log_list: Edge(src->tid), Update(tid) or NFU:tid
OpOf(task) == [ type |-> task.type, src |-> task.src, id |-> task.id ]

\* what _try_dispatch does; tracked: finished_list_lc is not None
TryDispatch(task, tracked) ==
    IF ~Dispatchable(task)
    THEN UNCHANGED << eventVars, locked_targets, dispatched_log, nodes_finished_this_lc >>
    ELSE IF task.type = "FUSION"
    THEN /\ nfu_busy_timer' = 1
         /\ nfu_events' = Append(nfu_events,
                [ type |-> "FUSION", target_id |-> task.id,
                  finish_time |-> NfuFinishTime, start_pc |-> pc, mec |-> task.mec ])
         /\ dispatched_log' = Append(dispatched_log, OpOf(task))
         /\ nodes_finished_this_lc' =
               IF tracked THEN Append(nodes_finished_this_lc, task.id)
               ELSE nodes_finished_this_lc
         /\ UNCHANGED << pe_events, free_pes, locked_targets >>
    ELSE /\ free_pes' = free_pes - 1
         /\ pe_events' = Append(pe_events,
                [ type |-> task.type, target_id |-> task.id,
                  finish_time |-> PeFinishTime, start_pc |-> pc, mec |-> task.mec ])
         /\ locked_targets' = locked_targets \cup {task.id}
         /\ dispatched_log' = Append(dispatched_log, OpOf(task))
         /\ nodes_finished_this_lc' =
               IF task.type = "UPDATE" /\ tracked
               THEN Append(nodes_finished_this_lc, task.id)
               ELSE nodes_finished_this_lc
         /\ UNCHANGED << nfu_events, nfu_busy_timer >>

\* one iteration of `for task in self.mandatory_queue`
DispatchMandatory ==
    /\ ctl = "mandatory"
    /\ qi <= Len(mandatory_queue)
    /\ LET task == mandatory_queue[qi]
       IN  /\ TryDispatch(task, task.type \in {"UPDATE", "FUSION"})
           /\ next_queue' = IF Dispatchable(task) THEN next_queue
                            ELSE Append(next_queue, task)
    /\ qi' = qi + 1
    /\ UNCHANGED << inputVars, ctl, dag_data, compilerVars, mec_map, countVars,
                    clockVars, finished_nodes, nodes_finished_last_lc, queueVars,
                    logVars >>

\* self.mandatory_queue = next_mandatory; the optional queue is sorted
EndMandatory ==
    /\ ctl = "mandatory"
    /\ qi > Len(mandatory_queue)
    /\ mandatory_queue' = next_queue
    /\ optional_edge_queue' = SortOptional(optional_edge_queue)
    /\ next_queue' = << >>
    /\ qi' = 1
    /\ ctl' = "optional"
    /\ UNCHANGED << inputVars, dag_data, compilerVars, mec_map, countVars, clockVars,
                    finished_nodes, nodes_finished_last_lc, nodes_finished_this_lc,
                    eventVars, locked_targets, dispatched_log, logVars >>

\* one iteration of `for task in self.optional_edge_queue`
DispatchOptional ==
    /\ ctl = "optional"
    /\ qi <= Len(optional_edge_queue)
    /\ LET task == optional_edge_queue[qi]
       IN  IF PeAvailable
           THEN /\ TryDispatch(task, FALSE)
                /\ next_queue' = IF Dispatchable(task) THEN next_queue
                                 ELSE Append(next_queue, task)
           ELSE /\ next_queue' = Append(next_queue, task)
                /\ UNCHANGED << eventVars, locked_targets, dispatched_log,
                                nodes_finished_this_lc >>
    /\ qi' = qi + 1
    /\ UNCHANGED << inputVars, ctl, dag_data, compilerVars, mec_map, countVars,
                    clockVars, finished_nodes, nodes_finished_last_lc, queueVars,
                    logVars >>

\* all PEs idle at the end of a PC although mandatory work is waiting
StarvedNow == pe_events = << >> /\ mandatory_queue # << >>

\* self.optional_edge_queue = next_optional; _record_log; the loop test; after
\* the last PC of the LC, nodes_finished_last_lc = nodes_finished_this_lc
EndPC ==
    /\ ctl = "optional"
    /\ qi > Len(optional_edge_queue)
    /\ optional_edge_queue' = next_queue
    /\ next_queue' = << >>
    /\ total_cycles' = pc
    /\ trace_log' =
          IF dispatched_log # << >>
          THEN Append(trace_log, [ pc |-> pc, lc |-> current_lc,
                                   pe_busy |-> pe_limit - free_pes,
                                   ops |-> dispatched_log ])
          ELSE trace_log
    /\ starved' = (starved \/ StarvedNow)
    /\ IF mandatory_queue = << >>
       THEN /\ nodes_finished_last_lc' = nodes_finished_this_lc
            /\ ctl' = "lc"
       ELSE /\ nodes_finished_last_lc' = nodes_finished_last_lc
            /\ ctl' = "pc"
    /\ UNCHANGED << inputVars, dag_data, compilerVars, mec_map, countVars, clockVars,
                    finished_nodes, nodes_finished_this_lc, mandatory_queue,
                    eventVars, locked_targets, dispatched_log, qi >>

\* what a run leaves behind
RunResult ==
    [ ended |-> ctl, total_cycles |-> total_cycles, current_lc |-> current_lc,
      trace_log |-> trace_log, finished_nodes |-> finished_nodes ]

\* a second HeteroScheduler is built on the same DAG and MEC map, with any
\* nfu_limit, after the first has run with the default; the first result is kept
RunAgain ==
    /\ ctl \in {"done", "timeout"}
    /\ first_run = << >>
    /\ first_run' = << RunResult >>
    /\ nfu_limit' \in 1..MaxNfu
    /\ locked_targets' = {}
    /\ dispatched_log' = << >>
    /\ qi' = 1
    /\ next_queue' = << >>
    /\ starved' = FALSE
    /\ ctl' = "init"
    /\ UNCHANGED << raw_dag, threshold, chunk_size, split_factor, pe_limit, omit_mec,
                    dag_data,
                    compilerVars, mec_map, countVars, clockVars, finished_nodes,
                    nodes_finished_last_lc, nodes_finished_this_lc, queueVars,
                    eventVars, trace_log, total_cycles >>

----------------------------------------------------------------------------
(* GraphRewriter.process_file as a step of the pipeline *)

RewriteStep ==
    /\ ctl = "rewrite"
    /\ dag_data' = Rewrite(raw_dag, threshold, chunk_size)
    /\ ctl' = "compile"
    /\ UNCHANGED << inputVars, compilerVars, mec_map, countVars, clockVars,
                    finished_nodes, nodes_finished_last_lc, nodes_finished_this_lc,
                    queueVars, eventVars, issueVars, logVars >>

\* the same step taken by the GraphRewriter of generate_longtail_data.py
RewriteLongtailStep ==
    /\ ctl = "rewrite"
    /\ dag_data' = RewriteLongtail(raw_dag, threshold, split_factor)
    /\ ctl' = "compile"
    /\ UNCHANGED << inputVars, compilerVars, mec_map, countVars, clockVars,
                    finished_nodes, nodes_finished_last_lc, nodes_finished_this_lc,
                    queueVars, eventVars, issueVars, logVars >>

----------------------------------------------------------------------------
(* Inputs *)

\* S1: the chain 0 -> 1 -> 2
ChainDag ==
    << [ id |-> 0, parents |-> << >>, level |-> 0 ],
       [ id |-> 1, parents |-> << 0 >>, level |-> 1 ],
       [ id |-> 2, parents |-> << 1 >>, level |-> 2 ] >>

\* n roots 0..n-1 at level 0
Roots(n) == [ i \in 1..n |-> [ id |-> i - 1, parents |-> << >>, level |-> 0 ] ]

AllRoots(n) == [ i \in 1..n |-> i - 1 ]

\* n roots feeding `sinks` nodes at level 1, each with all the roots as parents
FanIn(n, sinks) ==
    Roots(n) \o [ k \in 1..sinks |->
                    [ id |-> n + k - 1, parents |-> AllRoots(n), level |-> 1 ] ]

\* S4: 20 roots feeding one sink, kept Normal by the long-tail threshold
SaturationDag == FanIn(20, 1)

\* S2: a 12-parent node; S3: two 6-parent nodes over the same roots
FanInSplitDag == FanIn(12, 1)

CompetingFusionsDag == FanIn(6, 2)

\* the state before the pipeline starts, whichever rewriter it starts with
BlankState ==
    /\ ctl = "rewrite"
    /\ nfu_limit = DefaultNfuLimit
    /\ first_run = << >>
    /\ dag_data = << >>
    /\ sorted_nodes = << >>
    /\ ci = 1
    /\ nodes_mec = [ x \in {} |-> 0 ]
    /\ nfu_next_free_time = 0
    /\ max_mec = 0
    /\ mec_map = [ x \in {} |-> 0 ]
    /\ node_remaining_dependency_count = [ x \in {} |-> 0 ]
    /\ fusion_remaining_parents = [ x \in {} |-> 0 ]
    /\ current_lc = 0
    /\ pc = 0
    /\ finished_nodes = {}
    /\ nodes_finished_last_lc = << >>
    /\ nodes_finished_this_lc = << >>
    /\ optional_edge_queue = << >>
    /\ mandatory_queue = << >>
    /\ pe_events = << >>
    /\ nfu_events = << >>
    /\ free_pes = pe_limit
    /\ nfu_busy_timer = 0
    /\ locked_targets = {}
    /\ dispatched_log = << >>
    /\ qi = 1
    /\ next_queue = << >>
    /\ trace_log = << >>
    /\ total_cycles = 0
    /\ starved = FALSE

Blank == BlankState /\ split_factor = DefaultSplitFactor

\* generated DAGs, rewritten with threshold = chunk_size as in graph_splitter's main
InitGenerated ==
    /\ raw_dag \in GeneratedDags(Dim)
    /\ threshold \in 1..MaxThreshold
    /\ chunk_size = threshold
    /\ pe_limit \in 1..MaxPE
    /\ omit_mec = {}

InitScenario ==
    /\ \/ /\ raw_dag \in { ChainDag, FanInSplitDag, CompetingFusionsDag }
          /\ threshold = DefaultThreshold
       \/ /\ raw_dag = SaturationDag
          /\ threshold = LongtailThreshold
    /\ chunk_size = DefaultChunkSize
    /\ pe_limit = DefaultPeLimit
    /\ omit_mec = {}

\* the chain with one entry missing from the MEC map
InitMissingMec ==
    /\ raw_dag = ChainDag
    /\ threshold = DefaultThreshold
    /\ chunk_size = DefaultChunkSize
    /\ pe_limit = DefaultPeLimit
    /\ omit_mec \in { {Str(i)} : i \in 0..2 }

Init == (InitGenerated \/ InitScenario \/ InitMissingMec) /\ Blank

Next ==
    \/ RewriteStep
    \/ CompilerStart
    \/ CompileNode
    \/ ExportMec
    \/ SchedulerInit
    \/ StepA
    \/ Finish
    \/ Timeout
    \/ StepB
    \/ StepC
    \/ Retire
    \/ DispatchMandatory
    \/ EndMandatory
    \/ DispatchOptional
    \/ EndPC

Spec == Init /\ [][Next]_vars

\* the same pipeline on raw files that list the nodes in any order
Permuted(d, f) == [ k \in 1..Len(d) |-> d[f[k]] ]

InitPermuted ==
    /\ raw_dag \in { Permuted(d, f) : d \in GeneratedDags(Dim), f \in Permutations(1..Dim) }
    /\ threshold \in 1..MaxThreshold
    /\ chunk_size = threshold
    /\ pe_limit = MaxPE
    /\ omit_mec = {}

\* the rewriter alone, with chunk_size chosen apart from threshold
InitRewriterInputs ==
    /\ \/ /\ raw_dag \in GeneratedDags(Dim)
          /\ threshold \in 0..MaxThreshold
          /\ chunk_size \in 1..MaxChunk
       \/ /\ raw_dag \in { FanInSplitDag, CompetingFusionsDag, SaturationDag }
          /\ threshold = DefaultThreshold
          /\ chunk_size \in 1..DefaultChunkSize
    /\ pe_limit = DefaultPeLimit
    /\ omit_mec = {}

InitRewriter == InitRewriterInputs /\ Blank

SpecRewriter == InitRewriter /\ [][RewriteStep]_vars

\* raw files in which node k also names a parent that is no node (id Dim)
WithDanglingParent(d, k) ==
    [ d EXCEPT ![k] = [ @ EXCEPT !.parents = Append(@, Dim) ] ]

InitDanglingInputs ==
    /\ raw_dag \in { WithDanglingParent(d, k) : d \in GeneratedDags(Dim), k \in 1..Dim }
    /\ threshold \in 1..MaxThreshold
    /\ chunk_size = threshold
    /\ pe_limit = DefaultPeLimit
    /\ omit_mec = {}

InitDangling == InitDanglingInputs /\ Blank

\* GraphRewriter, then batch_run_mec_resource
NextCompile ==
    \/ RewriteStep
    \/ CompilerStart
    \/ CompileNode
    \/ ExportMec

SpecDangling == InitDangling /\ [][NextCompile]_vars

InitAnyOrder == (InitPermuted \/ InitMissingMec) /\ Blank

SpecAnyOrder == InitAnyOrder /\ [][Next]_vars

\* run() is one sequential loop: a step that can be taken is taken. The runs
\* are those of the generated DAGs and of the chain.
InitFair == (InitGenerated \/ InitMissingMec) /\ Blank

FairSpec == InitFair /\ [][Next]_vars /\ WF_vars(Next)

\* three roots and two nodes that each depend on some of the roots: a part of
\* GeneratedDags(5)
ThreeRootDags ==
    { Roots(3) \o << RawNode(Roots(3), 3, a), RawNode(Roots(3), 4, b) >> :
        a \in SUBSET (0..2), b \in SUBSET (0..2) }

InitThreeRootInputs ==
    /\ raw_dag \in ThreeRootDags
    /\ threshold \in 1..MaxThreshold
    /\ chunk_size = threshold
    /\ pe_limit \in 1..MaxPE
    /\ omit_mec = {}

InitThreeRoots == (InitThreeRootInputs \/ InitMissingMec) /\ Blank

SpecThreeRoots == InitThreeRoots /\ [][Next]_vars

\* generated DAGs split as far as they go, scheduled twice
InitTwoRunInputs ==
    /\ raw_dag \in GeneratedDags(Dim)
    /\ threshold = 1
    /\ chunk_size = threshold
    /\ pe_limit = MaxPE
    /\ omit_mec = {}

InitTwoRuns == (InitTwoRunInputs \/ InitMissingMec) /\ Blank

NextTwoRuns == Next \/ RunAgain

SpecTwoRuns == InitTwoRuns /\ [][NextTwoRuns]_vars

----------------------------------------------------------------------------
(* Properties *)

Scheduling == ctl \in {"lc", "stepB", "stepC", "pc", "mandatory", "optional"}

Issuing == ctl \in {"mandatory", "optional"}

Compiled == ctl \notin {"rewrite", "compile", "mec"}

\* the ops of kind `types` in the trace, each with the pc and lc it was issued in
Issued(types) ==
    UNION { { [ pc |-> trace_log[k].pc, lc |-> trace_log[k].lc,
                id |-> trace_log[k].ops[j].id, src |-> trace_log[k].ops[j].src ] :
              j \in { i \in 1..Len(trace_log[k].ops) : trace_log[k].ops[i].type \in types } } :
            k \in 1..Len(trace_log) }

\* C1: the PE events in flight never outnumber the PEs
PeBound == Len(pe_events) <= pe_limit

\* every PE is busy and a PE task that is not locked out was refused
PeSaturated ==
    /\ Issuing
    /\ Len(pe_events) = pe_limit
    /\ \E k \in 1..Len(next_queue) :
          next_queue[k].type # "FUSION" /\ next_queue[k].id \notin locked_targets

\* C2 as stated: at most one NFU event is in flight
NfuAtMostOne == Len(nfu_events) <= 1

\* C2 amended: at most two NFU events are in flight (a Fusion stays in
\* nfu_events for two physical cycles, the NFU takes a new one every cycle), and
\* no two of them were issued in the same physical cycle
NfuPipelined ==
    /\ Len(nfu_events) <= 2
    /\ \A i, j \in 1..Len(nfu_events) :
          i # j => nfu_events[i].start_pc # nfu_events[j].start_pc

TwoFusionsInFlight == Len(nfu_events) = 2

\* C3: no two PE events in flight have the same target
PerTargetSerialised ==
    \A i, j \in 1..Len(pe_events) :
        i # j => pe_events[i].target_id # pe_events[j].target_id

\* a task was refused although a PE was free, because its target is locked
LockRefusal ==
    /\ Issuing
    /\ free_pes > 0
    /\ \E k \in 1..Len(next_queue) :
          next_queue[k].type # "FUSION" /\ next_queue[k].id \in locked_targets

\* C4: when run leaves its loop without the cap, every node is finished, both
\* queues are empty, nothing is in flight and the NFU timer is 0
SchedulerComplete ==
    ctl = "done" =>
        /\ finished_nodes = NodeIds
        /\ mandatory_queue = << >>
        /\ optional_edge_queue = << >>
        /\ pe_events = << >>
        /\ nfu_events = << >>
        /\ nfu_busy_timer = 0

\* a run over a DAG with a Fusion node has ended normally
DoneWithFusion == ctl = "done" /\ FusionIds # {} /\ Issued({"FUSION"}) # {}

\* C5: with the compiled MEC map the run eventually ends with every node
\* finished, not through the cap
EventuallyFinished ==
    (omit_mec = {}) => <>(ctl = "done" /\ Cardinality(finished_nodes) = Len(dag_data))

\* a run with Partial nodes has ended normally after several logical cycles
DoneAfterSplit ==
    /\ ctl = "done"
    /\ omit_mec = {}
    /\ \E k \in 1..Len(dag_data) : dag_data[k].type = "PARTIAL"
    /\ current_lc > 3

\* C6: along every edge (p, c) of the rewritten DAG, mec(c) >= mec(p) + 1
MecMonotone ==
    Compiled =>
        \A k \in 1..Len(dag_data) : \A j \in 1..Len(dag_data[k].parents) :
            nodes_mec[dag_data[k].id] >= nodes_mec[dag_data[k].parents[j]] + 1

\* C7: the scoreboard never decreases, a Fusion starts (mec - 2) no earlier
\* than the scoreboard value it finds, and once compiled any two Fusion nodes
\* start at least one cycle apart
ScoreboardStep ==
    /\ nfu_next_free_time' >= nfu_next_free_time
    /\ (/\ ctl = "mec"
        /\ ci <= Len(sorted_nodes)
        /\ ItemOf(dag_data, sorted_nodes[ci]).type = "FUSION")
       => nodes_mec'[sorted_nodes[ci]] - 2 >= nfu_next_free_time
    /\ ctl' = "init" =>
          \A f, g \in FusionIds :
              f # g => \/ nodes_mec'[f] - nodes_mec'[g] >= 1
                       \/ nodes_mec'[g] - nodes_mec'[f] >= 1

FusionSerialised == [][ScoreboardStep]_vars

\* two Fusion nodes were compiled and the scoreboard pushed one of them past
\* the cycle its data is ready
ScoreboardDelayed ==
    /\ ctl = "init"
    /\ Cardinality(FusionIds) >= 2
    /\ \E f \in FusionIds :
          nodes_mec[f] - 2 >
              SeqMax([ j \in 1..Len(ItemOf(dag_data, f).parents) |->
                          nodes_mec[ItemOf(dag_data, f).parents[j]] ])

\* C8: in a run that has ended and was never starved, every Update and Fusion
\* was issued in the logical cycle equal to its node's MEC
DeadlineMet ==
    (ctl = "done" /\ omit_mec = {} /\ ~starved) =>
        \A op \in Issued({"UPDATE", "FUSION"}) : op.lc = MecOf(op.id)

\* C9: the chain 0 -> 1 -> 2 with MEC {0:1, 1:3, 2:5} and 10 PEs ends at
\* total_cycles = 5
ChainTakesFive ==
    (/\ ctl = "done"
     /\ raw_dag = ChainDag
     /\ pe_limit = 10
     /\ mec_map = [ nid \in {"0", "1", "2"} |->
                      IF nid = "0" THEN 1 ELSE IF nid = "1" THEN 3 ELSE 5 ])
    => total_cycles = 5

EdgePcs == { op.pc : op \in Issued({"EDGE"}) }

FirstEdgePc == CHOOSE p \in EdgePcs : \A q \in EdgePcs : p <= q

SaturationDone == ctl = "done" /\ raw_dag = SaturationDag /\ pe_limit = 10

\* C10 as stated: the 20 edges into the sink are issued within two physical
\* cycles and the sink's Update in the third
SaturationTwoCycles ==
    SaturationDone =>
        /\ Cardinality(Issued({"EDGE"})) = 20
        /\ Cardinality(EdgePcs) <= 2
        /\ \E op \in Issued({"UPDATE"}) : op.id = "20" /\ op.pc = FirstEdgePc + 2

\* C10 amended: the 20 edges into the sink are issued one per physical cycle
\* in 20 consecutive cycles, and the sink's Update two cycles after the last
SaturationSerialised ==
    SaturationDone =>
        /\ Cardinality(Issued({"EDGE"})) = 20
        /\ EdgePcs = FirstEdgePc..(FirstEdgePc + 19)
        /\ \E op \in Issued({"UPDATE"}) : op.id = "20" /\ op.pc = FirstEdgePc + 21

SaturationRan == SaturationDone /\ total_cycles > 20

Abs(x) == IF x < 0 THEN 0 - x ELSE x

\* the physical cycle in which the Update or Fusion of node nid was issued
IssuePc(nid) == (CHOOSE op \in Issued({"UPDATE", "FUSION"}) : op.id = nid).pc

\* two Fusion nodes at one level whose Partial parents have the same MECs
Competing(a, b) ==
    /\ a # b
    /\ ItemOf(dag_data, a).level = ItemOf(dag_data, b).level
    /\ SortAsc(ParentMecs(ItemOf(dag_data, a))) = SortAsc(ParentMecs(ItemOf(dag_data, b)))

\* C11 as stated: when the two Fusion nodes of a DAG compete, their MECs differ
\* by at least 1 and the one with the later MEC is issued exactly one physical
\* cycle after the other
CompetingFusionsConsecutive ==
    (ctl = "done" /\ omit_mec = {}) =>
        \A a, b \in FusionIds :
            (FusionIds = {a, b} /\ Competing(a, b) /\ nodes_mec[a] <= nodes_mec[b]) =>
                /\ nodes_mec[b] - nodes_mec[a] >= 1
                /\ IssuePc(b) = IssuePc(a) + 1

\* scenario S3 has run: the Fusions of nodes 6 and 7 compete and were issued
CompetingFusionsRan ==
    /\ ctl = "done"
    /\ raw_dag = CompetingFusionsDag
    /\ FusionIds = {"6", "7"}
    /\ Competing("6", "7")
    /\ { op.id : op \in Issued({"FUSION"}) } = {"6", "7"}

\* the nodes of the rewritten DAG that are not Normal, as << id, type, fan-in >>
SplitShape ==
    LET split == SelectSeq(dag_data, LAMBDA n : n.type # "NORMAL")
    IN  [ k \in 1..Len(split) |-> << split[k].id, split[k].type, Len(split[k].parents) >> ]

\* C12: the 12-parent node of S2, rewritten with threshold = chunk_size = 5,
\* becomes Partials of fan-in 5, 5, 2 and one Fusion; the compiler gives the
\* Partials MEC 6, 6, 3, the Fusion start 6 and MEC 8, and leaves the
\* scoreboard at 7
FanInSplitCompiled ==
    (raw_dag = FanInSplitDag /\ threshold = 5 /\ chunk_size = 5 /\ Compiled) =>
        /\ SplitShape = << << "P_12_0", "PARTIAL", 5 >>, << "P_12_1", "PARTIAL", 5 >>,
                           << "P_12_2", "PARTIAL", 2 >>, << "12", "FUSION", 3 >> >>
        /\ nodes_mec["P_12_0"] = 6
        /\ nodes_mec["P_12_1"] = 6
        /\ nodes_mec["P_12_2"] = 3
        /\ nodes_mec["12"] - 2 = 6
        /\ nfu_next_free_time = 7
        /\ nodes_mec["12"] = 8

\* S2 has been rewritten and compiled, and its MEC map exported
FanInSplitExported ==
    /\ raw_dag = FanInSplitDag
    /\ ctl = "init"
    /\ "12" \in DOMAIN mec_map
    /\ FusionIds = {"12"}

----------------------------------------------------------------------------
(* Rewriter fidelity *)

Rewritten == ctl # "rewrite"

CeilDiv(a, b) == (a + b - 1) \div b

RECURSIVE Flatten(_)
Flatten(ss) == IF ss = << >> THEN << >> ELSE ss[1] \o Flatten(Tail(ss))

\* the positions of the rewritten DAG that hold a Partial node of raw node n
PartialPositions(n) ==
    { j \in 1..Len(dag_data) :
        /\ dag_data[j].type = "PARTIAL"
        /\ \E k \in 0..Len(n.parents) : dag_data[j].id = PartialId(n.id, k) }

\* the positions that hold a node with the id of raw node n
OwnPositions(n) == { j \in 1..Len(dag_data) : dag_data[j].id = Str(n.id) }

\* from position i + 1 on: count Partials P_id_0.. and then the Fusion node
SplitEmittedAt(n, i, count) ==
    /\ i + count + 1 <= Len(dag_data)
    /\ \A k \in 1..count :
          /\ dag_data[i + k].type = "PARTIAL"
          /\ dag_data[i + k].id = PartialId(n.id, k - 1)
    /\ Flatten([ k \in 1..count |-> dag_data[i + k].parents ]) = StrAll(n.parents)
    /\ dag_data[i + count + 1].type = "FUSION"
    /\ dag_data[i + count + 1].id = Str(n.id)
    /\ dag_data[i + count + 1].level = n.level + 1
    /\ dag_data[i + count + 1].parents = [ k \in 1..count |-> dag_data[i + k].id ]

\* C13: a node with more than `threshold` parents becomes exactly
\* ceil(|parents| / chunk_size) Partial nodes P_id_0.., whose parent lists
\* concatenated are the original parent list, followed by exactly one Fusion
\* node with the original id, one level higher, over those Partials in order
SplitFidelity ==
    Rewritten =>
        \A r \in 1..Len(raw_dag) :
            Len(raw_dag[r].parents) > threshold =>
                LET n     == raw_dag[r]
                    count == CeilDiv(Len(n.parents), chunk_size)
                IN  /\ Cardinality(PartialPositions(n)) = count
                    /\ Cardinality(OwnPositions(n)) = 1
                    /\ \E i \in 0..Len(dag_data) : SplitEmittedAt(n, i, count)

\* a node was cut into several chunks, the last one shorter than chunk_size
UnevenSplit ==
    /\ Rewritten
    /\ \E r \in 1..Len(raw_dag) :
          /\ Len(raw_dag[r].parents) > threshold
          /\ Len(raw_dag[r].parents) > chunk_size
          /\ Len(raw_dag[r].parents) % chunk_size # 0

\* C14: a node with at most `threshold` parents becomes exactly one node, of
\* type NORMAL, with the same id, the same parents in order (as strings), the
\* same level and cost |parents| + 1, and no Partial or Fusion node
PassThroughFidelity ==
    Rewritten =>
        \A r \in 1..Len(raw_dag) :
            Len(raw_dag[r].parents) <= threshold =>
                LET n == raw_dag[r]
                IN  /\ PartialPositions(n) = {}
                    /\ Cardinality(OwnPositions(n)) = 1
                    /\ \A j \in OwnPositions(n) :
                          /\ dag_data[j].type = "NORMAL"
                          /\ dag_data[j].parents = StrAll(n.parents)
                          /\ dag_data[j].level = n.level
                          /\ dag_data[j].cost = Len(n.parents) + 1

\* a node with exactly `threshold` parents was passed through beside a split one
ThresholdNodePassed ==
    /\ Rewritten
    /\ threshold > 0
    /\ \E r \in 1..Len(raw_dag) : Len(raw_dag[r].parents) = threshold
    /\ \E r \in 1..Len(raw_dag) : Len(raw_dag[r].parents) > threshold

----------------------------------------------------------------------------
(* The value run() returns *)

\* return self.stats, self.trace_log, ...: the one return statement serves both
\* exits of the loop. detailed_log and lc_snapshot_log repeat the trace per PC
\* and per LC and are not carried.
ReturnValue ==
    [ stats |-> [ total_cycles |-> total_cycles ], trace_log |-> trace_log ]

Returned == ctl \in {"done", "timeout"}

\* a value that tells its reader that the run was cut by the cap
HasTimeoutMarker(v) ==
    \/ "timeout" \in DOMAIN v
    \/ "timeout" \in DOMAIN v.stats
    \/ \E k \in 1..Len(v.trace_log) : "timeout" \in DOMAIN v.trace_log[k]

\* C15: when run() stops at the cap with a node unfinished, the value it
\* returns carries a timeout marker
TimeoutMarked ==
    (ctl = "timeout" /\ Cardinality(finished_nodes) < Len(dag_data)) =>
        HasTimeoutMarker(ReturnValue)

----------------------------------------------------------------------------
(* Malformed DAGs *)

\* the parents named in the rewritten DAG that are not nodes of it
DanglingParents ==
    UNION { Range(dag_data[k].parents) : k \in 1..Len(dag_data) } \ NodeIds

\* the nodes that name such a parent
DanglingChildren ==
    { dag_data[k].id : k \in { j \in 1..Len(dag_data) :
                                  Range(dag_data[j].parents) \cap DanglingParents # {} } }

\* C16: a DAG that names a parent outside its node set is not compiled: no
\* node naming such a parent is given a MEC and no MEC map is exported
DanglingParentAborts ==
    (Rewritten /\ DanglingParents # {}) =>
        /\ \A nid \in DanglingChildren \cap DOMAIN nodes_mec : nodes_mec[nid] = 0
        /\ DOMAIN mec_map = {}
        /\ ctl \in {"compile", "mec"}

----------------------------------------------------------------------------
(* Retirement latency *)

\* the completion handler has run for event e in this step
Handled(e) ==
    IF e.type = "EDGE"
    THEN node_remaining_dependency_count'[e.target_id]
            < node_remaining_dependency_count[e.target_id]
    ELSE e.target_id \notin finished_nodes /\ e.target_id \in finished_nodes'

\* an event enters a list only with the current pc as its start, and leaves it
\* only in a retire phase; the retire phase of cycle pc + 1 retires every PE
\* event (all issued at pc) and the NFU events issued at pc - 1, and keeps the
\* NFU events issued at pc, unhandled
RetireStep ==
    /\ \A e \in Range(pe_events') \ Range(pe_events) : e.start_pc = pc'
    /\ \A e \in Range(nfu_events') \ Range(nfu_events) : e.start_pc = pc'
    /\ (pc' = pc) =>
          /\ Range(pe_events) \subseteq Range(pe_events')
          /\ Range(nfu_events) \subseteq Range(nfu_events')
    /\ (pc' = pc + 1) =>
          /\ \A e \in Range(pe_events) :
                e.start_pc = pc /\ e \notin Range(pe_events') /\ Handled(e)
          /\ \A e \in Range(nfu_events) :
                \/ e.start_pc = pc - 1 /\ e \notin Range(nfu_events') /\ Handled(e)
                \/ /\ e.start_pc = pc
                   /\ e \in Range(nfu_events')
                   /\ e.target_id \notin finished_nodes'

\* C17: an EDGE or UPDATE issued at physical cycle p is retired in the retire
\* phase of p + 1, a FUSION issued at p in the retire phase of p + 2, never
\* earlier and never later
RetireOnTime == [][RetireStep]_vars

\* after a retire phase a Fusion issued in the cycle before is still in flight,
\* while an Update issued in that cycle has finished its node
FusionOutlivesRetire ==
    /\ ctl = "mandatory"
    /\ \E e \in Range(nfu_events) : e.start_pc = pc - 1
    /\ pe_events = << >>
    /\ \E op \in Issued({"UPDATE", "EDGE"}) : op.pc = pc - 1

----------------------------------------------------------------------------
(* Completion ops: their guard and their number *)

CompletionTypes == {"UPDATE", "FUSION"}

\* the count the deadline scan reads for node nid
Remaining(nid) ==
    IF ItemOf(dag_data, nid).type = "FUSION"
    THEN GetOr0(fusion_remaining_parents, nid)
    ELSE GetOr0(node_remaining_dependency_count, nid)

\* every parent of nid has finished
ParentsFinished(nid) ==
    \A p \in Range(ItemOf(dag_data, nid).parents) : p \in finished_nodes

\* the guard under which a completion op of nid may be queued or in flight
PromotionGuard(nid) ==
    /\ MecOf(nid) <= current_lc
    /\ Remaining(nid) = 0
    /\ ParentsFinished(nid)

\* C19: an UPDATE or FUSION task is queued, and so issued, only in a logical
\* cycle >= the MEC of its node and only with the node's remaining count at 0,
\* all its inbound edges retired (all its Partial parents finished)
PromotionGuarded ==
    Scheduling =>
        /\ \A k \in 1..Len(mandatory_queue) :
              mandatory_queue[k].type \in CompletionTypes =>
                  PromotionGuard(mandatory_queue[k].id)
        /\ \A e \in Range(pe_events \o nfu_events) :
              e.type \in CompletionTypes => PromotionGuard(e.target_id)
        /\ \A op \in Issued(CompletionTypes) : MecOf(op.id) <= op.lc

\* the scan has queued the Update of a node with parents and the Fusion of a
\* split node
GuardPassed ==
    /\ ctl = "stepC"
    /\ \E k \in 1..Len(mandatory_queue) :
          /\ mandatory_queue[k].type = "UPDATE"
          /\ ItemOf(dag_data, mandatory_queue[k].id).parents # << >>
    /\ Issued({"FUSION"}) # {}

\* the mandatory tasks that wait: while the queue is being walked, the refused
\* ones (next_mandatory) and the ones not yet tried
WaitingMandatory ==
    IF ctl = "mandatory"
    THEN next_queue \o SubSeq(mandatory_queue, qi, Len(mandatory_queue))
    ELSE mandatory_queue

\* how many completion tasks of nid wait in the mandatory queue
QueuedCount(nid) ==
    Cardinality({ k \in 1..Len(WaitingMandatory) :
                    /\ WaitingMandatory[k].type \in CompletionTypes
                    /\ WaitingMandatory[k].id = nid })

\* how many completion events of nid are in flight
InFlightCount(nid) ==
    Cardinality({ k \in 1..Len(pe_events \o nfu_events) :
                    /\ (pe_events \o nfu_events)[k].type \in CompletionTypes
                    /\ (pe_events \o nfu_events)[k].target_id = nid })

\* every op issued so far, in issue order: the trace and, within a PC, the
\* ops of the PC under way
IssuedOps ==
    Flatten([ k \in 1..Len(trace_log) |-> trace_log[k].ops ])
    \o (IF Issuing THEN dispatched_log ELSE << >>)

\* how many completion ops of nid the sequence ops holds
IssuedCount(ops, nid) ==
    Cardinality({ j \in 1..Len(ops) : ops[j].type \in CompletionTypes /\ ops[j].id = nid })

FinishedCount(nid) == IF nid \in finished_nodes THEN 1 ELSE 0

\* C20: the UPDATE of a Normal node and the FUSION of a Fusion node are queued
\* and issued at most once, also while the issued event is in flight and the
\* node not yet finished, and exactly once in a run that completes; a Partial
\* node never gets one
CompletionOnce ==
    Scheduling \/ Returned =>
        LET ops == IssuedOps
        IN  \A k \in 1..Len(dag_data) :
                LET nid == dag_data[k].id
                IN  IF dag_data[k].type = "PARTIAL"
                    THEN QueuedCount(nid) + InFlightCount(nid) + IssuedCount(ops, nid) = 0
                    ELSE /\ QueuedCount(nid) + InFlightCount(nid) + FinishedCount(nid) <= 1
                         /\ IssuedCount(ops, nid) = InFlightCount(nid) + FinishedCount(nid)
                         /\ ctl = "done" => IssuedCount(ops, nid) = 1

\* at the deadline scan of a new logical cycle a node's completion event is
\* in flight, the node is due and ready and not yet finished
InFlightAtScan ==
    /\ ctl = "stepB"
    /\ \E nid \in NodeIds :
          /\ InFlightCount(nid) = 1
          /\ nid \notin finished_nodes
          /\ DeadlineReached(nid)
          /\ IsReady(nid)

----------------------------------------------------------------------------
(* Edge release: producers and consumers *)

\* the edge tasks waiting in either queue
WaitingEdges ==
    { t \in Range(optional_edge_queue) \cup Range(mandatory_queue) : t.type = "EDGE" }

\* the edge ops issued in the PC under way
EdgesIssuedNow ==
    IF Issuing THEN { op \in Range(dispatched_log) : op.type = "EDGE" } ELSE {}

SourceIs(types, t) ==
    \E k \in 1..Len(dag_data) : dag_data[k].id = t.src /\ dag_data[k].type \in types

\* C21: an edge task out of a Fusion node is in a queue only once the Fusion is
\* in finished_nodes, and no edge out of a Fusion is issued before the
\* Fusion's NFU event has retired
FusionEdgeAfterRetire ==
    Scheduling =>
        \A t \in WaitingEdges \cup EdgesIssuedNow :
            SourceIs({"FUSION"}, t) => t.src \in finished_nodes

\* C22: an edge whose source is a Normal node is issued only in a physical
\* cycle in which the source is in finished_nodes, its Update having been
\* issued in an earlier physical cycle and retired
ProducerBeforeConsumer ==
    Scheduling =>
        LET updates == Issued({"UPDATE"})
        IN  /\ \A op \in EdgesIssuedNow :
                  SourceIs({"NORMAL"}, op) => op.src \in finished_nodes
            /\ \A op \in Issued({"EDGE"}) :
                  SourceIs({"NORMAL"}, op) =>
                      \E u \in updates : u.id = op.src /\ u.pc < op.pc

\* an edge is issued in the physical cycle right after its source's Update,
\* which has just retired
EdgeRightAfterUpdate ==
    /\ Issuing
    /\ \E op \in EdgesIssuedNow :
          /\ SourceIs({"NORMAL"}, op)
          /\ op.src \in finished_nodes
          /\ \E u \in Issued({"UPDATE"}) : u.id = op.src /\ u.pc = pc - 1

\* the optional tasks that wait: while the queue is being walked, the ones put
\* back (next_optional) and the ones not yet tried
WaitingOptional ==
    IF ctl = "optional"
    THEN next_queue \o SubSeq(optional_edge_queue, qi, Len(optional_edge_queue))
    ELSE optional_edge_queue

\* how many edge entries src -> child the sequence s of tasks or ops holds
EdgeCount(s, src, child) ==
    Cardinality({ k \in 1..Len(s) :
                    s[k].type = "EDGE" /\ s[k].src = src /\ s[k].id = child })

\* the nodes whose completion op was issued in a logical cycle before this one
CompletedBefore == { op.id : op \in { o \in Issued(CompletionTypes) : o.lc < current_lc } }

\* C23: the edge tasks created so far for a parent entry (src, child), waiting
\* or issued, number one per entry once the LC after the one that issued the
\* completion op of src has begun and none before; so they are created at the
\* LC boundary only, once, and none has a Fusion node as its target
BatchRelease ==
    Scheduling \/ Returned =>
        LET ops     == IssuedOps
            waiting == WaitingMandatory \o WaitingOptional
            before  == CompletedBefore
            IsEntry(e) == \E k \in 1..Len(dag_data) :
                             /\ dag_data[k].id = e.id
                             /\ dag_data[k].type # "FUSION"
                             /\ e.src \in Range(dag_data[k].parents)
        IN  /\ \A k \in 1..Len(dag_data) : \A src \in Range(dag_data[k].parents) :
                  EdgeCount(waiting, src, dag_data[k].id) + EdgeCount(ops, src, dag_data[k].id)
                    = IF src \in before /\ dag_data[k].type # "FUSION"
                      THEN Occurrences(src, dag_data[k].parents)
                      ELSE 0
            /\ \A k \in 1..Len(waiting) : waiting[k].type = "EDGE" => IsEntry(waiting[k])
            /\ \A k \in 1..Len(ops) : ops[k].type = "EDGE" => IsEntry(ops[k])

\* Step A has just released the edges of a node whose completion op was issued
\* in the logical cycle before, while a node with an edge to come has its own
\* completion op still to be issued
EdgesJustReleased ==
    /\ ctl = "stepB"
    /\ \E t \in WaitingEdges :
          \E op \in Issued(CompletionTypes) : op.id = t.src /\ op.lc = current_lc - 1
    /\ \E k \in 1..Len(dag_data) :
          /\ dag_data[k].type # "FUSION"
          /\ dag_data[k].parents # << >>
          /\ \A src \in Range(dag_data[k].parents) : src \notin CompletedBefore

----------------------------------------------------------------------------
(* Slack promotion *)

\* the tasks of sequence s that are edges into target tid, in order
EdgesInto(s, tid) ==
    LET Into(t) == t.type = "EDGE" /\ t.id = tid IN SelectSeq(s, Into)

\* what Step C does to the queues, told target by target
SlackStep ==
    ctl = "stepC" =>
        LET n       == Len(mandatory_queue)
            added   == SubSeq(mandatory_queue', n + 1, Len(mandatory_queue'))
            targets == { optional_edge_queue[k].id : k \in 1..Len(optional_edge_queue) }
        IN  /\ SubSeq(mandatory_queue', 1, n) = mandatory_queue
            /\ \A k \in 1..Len(added) : added[k].type = "EDGE" /\ added[k].id \in targets
            /\ \A k \in 1..Len(optional_edge_queue') :
                  optional_edge_queue'[k].id \in targets
            /\ \A tid \in targets :
                  LET slack == MecOf(tid) - current_lc
                                 - GetOr0(node_remaining_dependency_count, tid)
                      old   == EdgesInto(optional_edge_queue, tid)
                      up    == EdgesInto(added, tid)
                      kept  == EdgesInto(optional_edge_queue', tid)
                  IN  /\ up \o kept = [ k \in 1..Len(old) |->
                                          [ old[k] EXCEPT !.slack = slack ] ]
                      /\ Len(up) = IF slack <= 0 THEN 1 ELSE 0

\* C24: at an LC boundary every target with optional edge tasks gets its slack
\* mec - current_lc - remaining stamped on all of them; with slack <= 0 the
\* first of them, and only it, moves to the end of the mandatory queue, with
\* slack > 0 none moves; the tasks are otherwise kept as they were, in order
SinglePromotion == [][SlackStep]_vars

\* Step C has promoted one of several edges into a target and left the rest,
\* and has left alone the edges into a target with positive slack
PromotedOneOfSeveral ==
    /\ ctl = "pc"
    /\ \E k \in 1..Len(mandatory_queue) :
          /\ mandatory_queue[k].type = "EDGE"
          /\ mandatory_queue[k].slack <= 0
          /\ EdgesInto(optional_edge_queue, mandatory_queue[k].id) # << >>
    /\ \E k \in 1..Len(optional_edge_queue) :
          /\ optional_edge_queue[k].slack > 0
          /\ EdgesInto(mandatory_queue, optional_edge_queue[k].id) = << >>

----------------------------------------------------------------------------
(* Issue order within a logical cycle *)

\* C25: in one logical cycle at most one edge is issued into any one target
OneEdgePerTargetPerLc ==
    \A a \in Issued({"EDGE"}) : \A b \in Issued({"EDGE"}) :
        a.id = b.id /\ a.lc = b.lc => a = b

\* the logical cycles in which something was issued
LcsInTrace == { trace_log[k].lc : k \in 1..Len(trace_log) }

\* C26: in every physical cycle the first task of the mandatory queue is
\* dispatched, so a cycle that starts with mandatory work ends with less of it;
\* the mandatory queue is empty at every LC boundary, and the physical cycles
\* run so far are one per logical cycle plus one more for each further cycle
\* in which a logical cycle issued something
BoundedInnerLoop ==
    Scheduling \/ Returned =>
        /\ ctl \in {"lc", "stepB", "done", "timeout"} => mandatory_queue = << >>
        /\ ctl = "mandatory" /\ qi > 1 => Len(next_queue) <= qi - 2
        /\ ctl \in {"lc", "done", "timeout"} =>
              pc = current_lc + Len(trace_log) - Cardinality(LcsInTrace)

\* a logical cycle of several physical cycles has ended, after one that
\* issued nothing in its only physical cycle
LongAndEmptyCycles ==
    /\ ctl = "lc"
    /\ \E j \in 1..Len(trace_log) : \E k \in 1..Len(trace_log) :
          j # k /\ trace_log[j].lc = trace_log[k].lc
    /\ \E l \in 1..current_lc : l \notin LcsInTrace

\* the tasks of queue with slack v, in order
WithSlack(queue, v) == LET Has(t) == t.slack = v IN SelectSeq(queue, Has)

\* b is a: sorted by ascending slack, tasks of equal slack in the order of a
StablySorted(a, b) ==
    /\ Len(b) = Len(a)
    /\ \A k \in 1..(Len(b) - 1) : b[k].slack <= b[k + 1].slack
    /\ \A k \in 1..Len(a) : WithSlack(b, a[k].slack) = WithSlack(a, a[k].slack)

\* a mandatory task that waits for a PE
RefusedForPe == \E k \in 1..Len(mandatory_queue) : mandatory_queue[k].type \in {"EDGE", "UPDATE"}

\* the steps of Phase 2.2
IssueStep ==
    /\ ctl = "pc" => StablySorted(mandatory_queue, mandatory_queue')
    /\ ctl = "mandatory" =>
          /\ ctl' = "optional" <=> qi > Len(mandatory_queue)
          /\ ctl' = "optional" => mandatory_queue' = next_queue
          /\ ctl' = "mandatory" =>
                /\ qi' = qi + 1
                /\ mandatory_queue' = mandatory_queue
                /\ optional_edge_queue' = optional_edge_queue
                /\ IF dispatched_log' = dispatched_log
                   THEN next_queue' = Append(next_queue, mandatory_queue[qi])
                   ELSE /\ next_queue' = next_queue
                        /\ dispatched_log' = Append(dispatched_log, OpOf(mandatory_queue[qi]))
    /\ ctl = "optional" =>
          /\ mandatory_queue' = mandatory_queue
          /\ RefusedForPe => dispatched_log' = dispatched_log
          /\ ctl' = "pc" <=> qi > Len(optional_edge_queue) /\ mandatory_queue # << >>

\* C27: in each physical cycle the mandatory queue is walked first and whole,
\* in ascending slack with ties in queue order; a refused task is kept for the
\* next physical cycle; and no optional edge is issued in a physical cycle that
\* refused a mandatory EDGE or UPDATE task
MandatoryFirst == [][IssueStep]_vars

\* a mandatory edge was refused, and the optional pass has walked past an edge
\* without issuing it
OptionalHeldBack ==
    /\ ctl = "optional"
    /\ qi > 1
    /\ RefusedForPe
    /\ \E k \in 1..Len(mandatory_queue) : mandatory_queue[k].type = "EDGE"

----------------------------------------------------------------------------
(* The NFU issue slot *)

FusionOps(ops) == { k \in 1..Len(ops) : ops[k].type = "FUSION" }

\* C28: whatever nfu_limit is, at most one FUSION op is issued in a physical
\* cycle, and a run with nfu_limit = k issues the ops of the run with
\* nfu_limit = 1, in the same physical and logical cycles, and ends as it did
SingleNfuSlot ==
    Scheduling \/ Returned =>
        /\ \A k \in 1..Len(trace_log) : Cardinality(FusionOps(trace_log[k].ops)) <= 1
        /\ Issuing => Cardinality(FusionOps(dispatched_log)) <= 1
        /\ first_run # << >> =>
              /\ Len(trace_log) <= Len(first_run[1].trace_log)
              /\ trace_log = SubSeq(first_run[1].trace_log, 1, Len(trace_log))
              /\ Returned => RunResult = first_run[1]

\* a run with nfu_limit above 1 has ended in which two Fusions were ready
\* together and were issued in consecutive physical cycles
SecondRunSerialised ==
    /\ ctl = "done"
    /\ first_run # << >>
    /\ nfu_limit > 1
    /\ \E a \in Issued({"FUSION"}) : \E b \in Issued({"FUSION"}) :
          a.lc = b.lc /\ b.pc = a.pc + 1

\* the task the walk of the mandatory queue tries next is a FUSION
FusionAtHead ==
    /\ ctl = "mandatory"
    /\ qi <= Len(mandatory_queue)
    /\ mandatory_queue[qi].type = "FUSION"

FusionStep ==
    /\ \A k \in 1..Len(optional_edge_queue) : optional_edge_queue[k].type = "EDGE"
    /\ FusionAtHead =>
          /\ mandatory_queue[qi].id \notin locked_targets
          /\ nfu_busy_timer = 0 <=>
                nfu_events' = Append(nfu_events,
                    [ type |-> "FUSION", target_id |-> mandatory_queue[qi].id,
                      finish_time |-> pc + 2, start_pc |-> pc,
                      mec |-> mandatory_queue[qi].mec ])
          /\ nfu_busy_timer # 0 =>
                /\ nfu_events' = nfu_events
                /\ next_queue' = Append(next_queue, mandatory_queue[qi])

\* C29: a FUSION task that is tried is issued if and only if nfu_busy_timer
\* is 0; its target is never among the targets locked by PE events, so the
\* per-target rule never refuses it
FusionBypassesLock == [][FusionStep]_vars

\* a Fusion has just been issued in a physical cycle in which PE ops issued
\* before it had locked their targets
FusionIssuedBesideLocks ==
    /\ ctl = "mandatory"
    /\ locked_targets # {}
    /\ Len(dispatched_log) >= 2
    /\ dispatched_log[Len(dispatched_log)].type = "FUSION"
    /\ dispatched_log[1].type = "UPDATE"

----------------------------------------------------------------------------
(* The MEC of a PE node *)

\* t := 0; for each a of arrivals in ascending order: t := max(a, t) + 1,
\* written without the loop: the arrival that is i-th from the last, counting
\* equal ones in list order, is followed by i serial edge cycles
SerialTime(arrivals) ==
    LET After(k) == { j \in 1..Len(arrivals) :
                        \/ arrivals[j] > arrivals[k]
                        \/ arrivals[j] = arrivals[k] /\ j >= k }
        ends == { arrivals[k] + Cardinality(After(k)) : k \in 1..Len(arrivals) }
    IN  CHOOSE t \in ends : \A u \in ends : u <= t

\* the compiler's step for a Normal or Partial node, and what is exported
PeNodeStep ==
    /\ (ctl = "mec" /\ ci <= Len(sorted_nodes)) =>
          \A k \in 1..Len(dag_data) :
              LET node    == dag_data[k]
                  arrived == [ j \in 1..Len(node.parents) |-> nodes_mec[node.parents[j]] ]
              IN  (node.id = sorted_nodes[ci] /\ node.type # "FUSION") =>
                      nodes_mec'[node.id] =
                          IF node.parents = << >> THEN 1
                          ELSE IF node.type = "NORMAL" THEN SerialTime(arrived) + 1
                          ELSE SerialTime(arrived)
    /\ Compiled =>
          /\ \A nid \in DOMAIN mec_map : mec_map[nid] = nodes_mec[nid]
          /\ raw_dag = ChainDag =>
                nodes_mec = [ nid \in {"0", "1", "2"} |->
                                IF nid = "0" THEN 1 ELSE IF nid = "1" THEN 3 ELSE 5 ]

\* C30: a Normal or Partial node without parents is given MEC 1; otherwise,
\* with t the serial time of its parents' MECs, a Normal node is given t + 1
\* and a Partial node t; the chain 0 -> 1 -> 2 gets 1, 3, 5
PeNodeMec == [][PeNodeStep]_vars

\* the map is exported for a DAG in which a Normal node's parents are listed
\* with the later one first
LateParentCompiled ==
    /\ ctl = "init"
    /\ \E k \in 1..Len(dag_data) :
          /\ dag_data[k].type = "NORMAL"
          /\ Len(dag_data[k].parents) >= 2
          /\ nodes_mec[dag_data[k].parents[1]] > nodes_mec[dag_data[k].parents[2]]

----------------------------------------------------------------------------
(* Levels and compile order of the rewritten DAG *)

\* every parent of a raw node is listed before the node
ParentsFirst(raw) ==
    \A k \in 1..Len(raw) : \A j \in 1..Len(raw[k].parents) :
        \E i \in 1..(k - 1) : raw[i].id = raw[k].parents[j]

\* every edge of a raw DAG goes from a lower level to a higher one
LevelsRise(raw) ==
    \A k \in 1..Len(raw) : \A j \in 1..Len(raw[k].parents) :
        \A i \in 1..Len(raw) :
            raw[i].id = raw[k].parents[j] => raw[i].level < raw[k].level

\* raw files that list the nodes in any order that keeps parents before children
InitOrderedInputs ==
    /\ raw_dag \in { r \in { Permuted(d, f) : d \in GeneratedDags(Dim),
                                              f \in Permutations(1..Dim) } :
                       ParentsFirst(r) }
    /\ threshold \in 1..MaxThreshold
    /\ chunk_size = threshold
    /\ pe_limit = DefaultPeLimit
    /\ omit_mec = {}

InitOrdered == InitOrderedInputs /\ Blank

SpecOrdered == InitOrdered /\ [][NextCompile]_vars

\* the compiler has sorted the nodes by level
Sorted == ctl \notin {"rewrite", "compile"}

\* C31: when the levels of the raw DAG rise along every edge, no edge of the
\* rewritten DAG goes down a level, and when the raw file also lists parents
\* before children, the compiler's order has every parent before its children
LevelCompatible ==
    /\ (Rewritten /\ LevelsRise(raw_dag)) =>
          \A k \in 1..Len(dag_data) : \A j \in 1..Len(dag_data[k].parents) :
              \A i \in 1..Len(dag_data) :
                  dag_data[i].id = dag_data[k].parents[j]
                      => dag_data[i].level <= dag_data[k].level
    /\ (Sorted /\ LevelsRise(raw_dag) /\ ParentsFirst(raw_dag)) =>
          \A k \in 1..Len(sorted_nodes) :
              \A p \in Range(ItemOf(dag_data, sorted_nodes[k]).parents) :
                  \E i \in 1..(k - 1) : sorted_nodes[i] = p

\* a raw file not in id order was split, and a Fusion node ties on level with
\* one of its children in the compiler's order
FusionTiesWithChild ==
    /\ Sorted
    /\ ParentsFirst(raw_dag)
    /\ \E k \in 1..Len(raw_dag) : raw_dag[k].id # k - 1
    /\ \E i, k \in 1..Len(dag_data) :
          /\ dag_data[i].type = "FUSION"
          /\ dag_data[i].id \in Range(dag_data[k].parents)
          /\ dag_data[i].level = dag_data[k].level

----------------------------------------------------------------------------
(* A node without an entry in the MEC map *)

\* roots 0 and 1, node 2 on both of them, node 3 on node 2
SplitWithChildDag ==
    LET d == Roots(2) \o << RawNode(Roots(2), 2, {0, 1}) >>
    IN  d \o << RawNode(d, 3, {2}) >>

\* the chain and a DAG with a split node, each with no or one entry left out
\* of the MEC map: that of a Normal, a Fusion or a Partial node
InitMissingInputs ==
    /\ \/ /\ raw_dag = ChainDag
          /\ threshold = DefaultThreshold
          /\ chunk_size = DefaultChunkSize
          /\ omit_mec \in { {}, {"0"}, {"1"}, {"2"} }
       \/ /\ raw_dag = SplitWithChildDag
          /\ threshold = 1
          /\ chunk_size = 1
          /\ omit_mec \in { {"2"}, {"3"}, {PartialId(2, 0)} }
    /\ pe_limit = DefaultPeLimit

InitMissing == InitMissingInputs /\ Blank

FairSpecMissing == InitMissing /\ [][Next]_vars /\ WF_vars(Next)

\* the Normal and Fusion nodes that _build_graph finds no MEC for
MissingNodes ==
    { dag_data[k].id : k \in { j \in 1..Len(dag_data) :
                                 /\ dag_data[j].type \in {"NORMAL", "FUSION"}
                                 /\ dag_data[j].id \notin DOMAIN mec_map } }

\* no completion task of nid was queued or issued, nid is not finished, and
\* no edge into nid was promoted
NeverDue(nid) ==
    /\ node_info(nid).mec > max_lc_limit + 1
    /\ QueuedCount(nid) = 0
    /\ IssuedCount(IssuedOps, nid) = 0
    /\ \A k \in 1..Len(pe_events) : pe_events[k].target_id = nid => pe_events[k].type = "EDGE"
    /\ \A k \in 1..Len(nfu_events) : nfu_events[k].target_id # nid
    /\ nid \notin finished_nodes
    /\ \A k \in 1..Len(mandatory_queue) : mandatory_queue[k].id # nid
    /\ ctl # "done"

\* C32: a Normal or Fusion node that has no entry in the MEC map never gets
\* its UPDATE or FUSION task queued and is never finished, and the run ends
\* through the cap
MissingMecTimesOut ==
    /\ []((Scheduling \/ Returned) => \A nid \in MissingNodes : NeverDue(nid))
    /\ ((Scheduling /\ MissingNodes # {}) ~> (ctl = "timeout"))

\* the run was cut by the cap with a Normal node that has no MEC unfinished,
\* after an edge into that node was issued
MissingNodeLeftAtCap ==
    /\ ctl = "timeout"
    /\ \E nid \in MissingNodes :
          /\ nid \notin finished_nodes
          /\ \E j \in 1..Len(IssuedOps) :
                IssuedOps[j].type = "EDGE" /\ IssuedOps[j].id = nid

----------------------------------------------------------------------------
(* The cap on logical cycles *)

\* C33: no logical cycle numbered above max_lc_limit is entered, neither for
\* the steps at the LC boundary nor for issuing, and a run cut by the cap has
\* executed at most max_lc_limit logical cycles
LcCapBound ==
    /\ Scheduling => current_lc <= max_lc_limit
    /\ \A k \in 1..Len(trace_log) : trace_log[k].lc <= max_lc_limit
    /\ ctl = "timeout" => current_lc <= max_lc_limit

----------------------------------------------------------------------------
(* Dependency accounting *)

\* how many EDGE entries with target tid the sequence s of tasks, ops or events holds
EdgesTo(s, tid, field) ==
    Cardinality({ k \in 1..Len(s) : s[k].type = "EDGE" /\ s[k][field] = tid })

\* how many parents of nid are not finished
UnfinishedParents(nid) ==
    LET ps == ItemOf(dag_data, nid).parents
    IN  Cardinality({ k \in 1..Len(ps) : ps[k] \notin finished_nodes })

AccountingInv ==
    Scheduling \/ Returned =>
        LET ops == IssuedOps
            mand == WaitingMandatory
            opt == WaitingOptional
        IN  /\ \A k \in 1..Len(dag_data) :
                  LET t == dag_data[k].id
                      inflight == EdgesTo(pe_events, t, "target_id")
                      retired == EdgesTo(ops, t, "id") - inflight
                  IN  dag_data[k].type # "FUSION" =>
                        /\ node_remaining_dependency_count[t] >= 0
                        /\ node_remaining_dependency_count[t]
                              = Len(dag_data[k].parents) - retired
                        /\ EdgesTo(mand, t, "id") + EdgesTo(opt, t, "id") + inflight
                              <= node_remaining_dependency_count[t]
            /\ \A k \in 1..Len(dag_data) :
                  dag_data[k].type = "FUSION" =>
                        /\ fusion_remaining_parents[dag_data[k].id] >= 0
                        /\ fusion_remaining_parents[dag_data[k].id]
                              = UnfinishedParents(dag_data[k].id)

\* a step of the run takes from the count of a node the edge events into it
\* that the step retires, and nothing else, and keeps every finished node
AccountingStep ==
    Scheduling =>
        /\ \A t \in DOMAIN node_remaining_dependency_count :
              node_remaining_dependency_count'[t] =
                  node_remaining_dependency_count[t]
                    - Cardinality({ k \in 1..Len(pe_events) :
                                      /\ pe_events[k].type = "EDGE"
                                      /\ pe_events[k].target_id = t
                                      /\ pe_events[k] \notin Range(pe_events') })
        /\ finished_nodes \subseteq finished_nodes'

\* C34: the count of a Normal or Partial node is never negative and is the
\* number of its parents less the edge events into it retired so far, the edge
\* tasks into it that wait or are in flight never outnumber the count; the
\* count of a Fusion node is the number of its parents not yet finished; and
\* finished_nodes only grows
DependencyAccounting == []AccountingInv /\ [][AccountingStep]_vars

\* a node has some of its edges retired and another waiting or in flight,
\* while a Fusion node has some but not all of its Partial parents finished
CountsHalfWay ==
    /\ Scheduling
    /\ \E k \in 1..Len(dag_data) :
          /\ dag_data[k].type # "FUSION"
          /\ node_remaining_dependency_count[dag_data[k].id] > 0
          /\ node_remaining_dependency_count[dag_data[k].id] < Len(dag_data[k].parents)
          /\ EdgesTo(WaitingMandatory, dag_data[k].id, "id")
               + EdgesTo(WaitingOptional, dag_data[k].id, "id")
               + EdgesTo(pe_events, dag_data[k].id, "target_id") > 0
    /\ \E k \in 1..Len(dag_data) :
          /\ dag_data[k].type = "FUSION"
          /\ fusion_remaining_parents[dag_data[k].id] > 0
          /\ fusion_remaining_parents[dag_data[k].id] < Len(dag_data[k].parents)

----------------------------------------------------------------------------
(* The pipeline behind the long-tail rewriter *)

\* five roots, node 5 on two of them and node 6 on all five: with
\* split_factor 4 the two split nodes are cut into chunks of different size
MixedFanInDag ==
    Roots(5) \o << RawNode(Roots(5), 5, {0, 1}), RawNode(Roots(5), 6, 0..4) >>

InitLongtailInputs ==
    /\ \/ /\ raw_dag \in GeneratedDags(Dim)
          /\ threshold \in 1..MaxThreshold
          /\ split_factor \in 1..DefaultSplitFactor
       \/ /\ raw_dag = MixedFanInDag
          /\ threshold = 1
          /\ split_factor = DefaultSplitFactor
    /\ chunk_size = DefaultChunkSize
    /\ pe_limit = MaxPE
    /\ omit_mec = {}

\* the long-tail inputs, and the chain with one entry missing from the MEC map
InitLongtail == (InitLongtailInputs /\ BlankState) \/ (InitMissingMec /\ Blank)

\* Next with the long-tail rewriter in the place of graph_splitter's
NextLongtail ==
    \/ RewriteLongtailStep
    \/ CompilerStart
    \/ CompileNode
    \/ ExportMec
    \/ SchedulerInit
    \/ StepA
    \/ Finish
    \/ Timeout
    \/ StepB
    \/ StepC
    \/ Retire
    \/ DispatchMandatory
    \/ EndMandatory
    \/ DispatchOptional
    \/ EndPC

SpecLongtail == InitLongtail /\ [][NextLongtail]_vars

FairSpecLongtail == InitLongtail /\ [][NextLongtail]_vars /\ WF_vars(NextLongtail)

----------------------------------------------------------------------------
(* Competing Fusion nodes when the PEs are contended *)

\* two roots, two nodes on both of them, two nodes on some of the roots and
\* one node on some of these two: a part of GeneratedDags(7). With threshold 1
\* nodes 2 and 3 are split and their Fusion nodes compete, while the other
\* nodes load the PEs
ContendedDags ==
    LET d4 == Roots(2) \o << RawNode(Roots(2), 2, {0, 1}), RawNode(Roots(2), 3, {0, 1}) >>
    IN  { LET d6 == d4 \o << RawNode(d4, 4, a), RawNode(d4, 5, b) >>
          IN  d6 \o << RawNode(d6, 6, c) >> :
            a \in SUBSET {0, 1}, b \in SUBSET {0, 1}, c \in SUBSET {4, 5} }

InitCompetingInputs ==
    /\ \/ /\ raw_dag \in ContendedDags
          /\ threshold = 1
          /\ chunk_size = 1
          /\ pe_limit \in 1..MaxPE
       \/ /\ raw_dag = CompetingFusionsDag
          /\ threshold = DefaultThreshold
          /\ chunk_size = DefaultChunkSize
          /\ pe_limit = DefaultPeLimit
    /\ omit_mec = {}

\* the contended DAGs and S3, with the generated DAGs, where two late Fusion
\* tasks wait in the mandatory queue together
InitCompeting == (InitCompetingInputs \/ InitGenerated \/ InitMissingMec) /\ Blank

SpecCompeting == InitCompeting /\ [][Next]_vars

\* C11 amended: two competing Fusion nodes get MECs that differ by at least 1
\* and are never issued in the same physical cycle; in S3 itself (two nodes on
\* the same six roots, threshold = chunk_size = 5, pe_limit = 10) the MECs are
\* 8 and 9 and the Fusions are issued in the consecutive cycles 8 and 9
CompetingFusionsApart ==
    (ctl = "done" /\ omit_mec = {}) =>
        /\ \A a, b \in FusionIds :
              Competing(a, b) =>
                  /\ Abs(nodes_mec[a] - nodes_mec[b]) >= 1
                  /\ Abs(IssuePc(a) - IssuePc(b)) >= 1
        /\ (/\ raw_dag = CompetingFusionsDag
            /\ threshold = 5
            /\ chunk_size = 5
            /\ pe_limit = 10) =>
                  /\ nodes_mec["6"] = 8
                  /\ nodes_mec["7"] = 9
                  /\ IssuePc("6") = 8
                  /\ IssuePc("7") = 9

=============================================================================
